---- MODULE Spec2Model ----
(***************************************************************************)
(* file_cleaner: removal of byte-identical files of one directory.         *)
(* Model of src/src/main.rs: main, remove_duplicates, read_id, scan_file   *)
(* and the retry_interrupts macro, with the file system as state.          *)
(*                                                                         *)
(* Paths are numbered by their position in the directory listing of the    *)
(* first run, so every assignment of contents to paths stands for one      *)
(* listing order of one directory.  A second run of the program lists the  *)
(* surviving files in any order.                                           *)
(***************************************************************************)
EXTENDS Integers, Sequences, FiniteSets, TLC

\* ------------------------------------------------------------------ bounds
\* number of files in the directory, at most
NumFiles == 3
\* number of times one retried operation is interrupted, at most
MaxInterrupts == 1

\* ------------------------------------------------------------- constants
\* size_of::<usize>() on a 64-bit target
IDSIZE == 8

\* ---------------------------------------------------------- file contents
Prefix == <<1, 2, 3, 4, 5, 6, 7, 8>>
Short3 == <<1, 2, 3>>
FileA == Prefix \o <<120>>
FileC == Prefix \o <<121>>
FileR == <<8, 7, 6, 5, 4, 3, 2, 1, 120>>
\* the contents a file of the directory may have: shorter than the key,
\* exactly the key, same key with different tails, and another key
Contents == {Short3, Prefix, FileA, FileC, FileR}

Range(s) == {s[i] : i \in DOMAIN s}

VARIABLES
    pc,        \* position of the process: main, remove_duplicates, loop, exit_ok, exit_err
    listing,   \* the paths read_dir yields in this run, in order
    paths,     \* the part of the listing the for loop has not consumed
    disk,      \* the directory: existing path -> bytes of the file
    MAP_init,  \* whether MAP holds a value (MaybeUninit)
    MAP,       \* the index: key -> paths of the unique files with that key
    SCANNED,
    DELETED,
    out,       \* lines written to standard output
    errs,      \* number of lines written to standard error
    last,      \* what the latest scan_file call did
    files,     \* the directory as it was when this run started
    fault,     \* whether an I/O operation of this run has failed
    run,       \* 1 for the first run of the program, 2 for the second
    prev,      \* how the previous run ended: its fault flag and counters
    undeleted, \* the paths whose deletion failed in this run
    workers,   \* the threads that run scan_file, when there are several
    mode       \* how the threads share the index: sequential when there is one

vars == <<pc, listing, paths, disk, MAP_init, MAP, SCANNED, DELETED, out,
          errs, last, files, fault, run, prev, undeleted, workers, mode>>

\* ------------------------------------------------------- retry_interrupts
\* the outcomes of the successive attempts of one retried operation:
\* some interruptions, then a result that is not an interruption
Attempts ==
    { [i \in 1..(k + 1) |-> IF i <= k THEN "Interrupted" ELSE r] :
        k \in 0..MaxInterrupts, r \in {"Ok", "Err"} }

RECURSIVE retry_from(_, _)
retry_from(att, i) ==
    IF att[i] = "Ok" THEN [res |-> "Ok", tries |-> i]
    ELSE IF att[i] = "Interrupted" THEN retry_from(att, i + 1)
    ELSE [res |-> "Err", tries |-> i]

\* the operation issued once, an interruption returned as an error
retry_interrupts_once(att) ==
    IF att[1] = "Ok" THEN [res |-> "Ok", tries |-> 1]
    ELSE [res |-> "Err", tries |-> 1]

retry_interrupts(att) == retry_from(att, 1)

\* ---------------------------------------------------------------- read_id
\* usize::from_ne_bytes on a little-endian target; the integer is written
\* as its base-256 digits, most significant first
from_ne_bytes(buf) == [i \in 1..IDSIZE |-> buf[IDSIZE + 1 - i]]

\* read_exact replaced by a read that accepts fewer bytes and leaves the rest
\* of the zeroed buffer as it is
read_exact_padded(bytes, ioOk) ==
    IF ioOk
    THEN [ok |-> TRUE,
          buf |-> [i \in 1..IDSIZE |-> IF i <= Len(bytes) THEN bytes[i] ELSE 0]]
    ELSE [ok |-> FALSE, buf |-> <<>>]

\* Read::read_exact into a buffer of IDSIZE bytes
read_exact(bytes, ioOk) ==
    IF ioOk /\ Len(bytes) >= IDSIZE
    THEN [ok |-> TRUE, buf |-> SubSeq(bytes, 1, IDSIZE)]
    ELSE [ok |-> FALSE, buf |-> <<>>]

read_id(d, path, openAtt, ioOk) ==
    LET opened == retry_interrupts(openAtt).res = "Ok" /\ path \in DOMAIN d
        rd == IF opened THEN read_exact(d[path], ioOk)
              ELSE [ok |-> FALSE, buf |-> <<>>]
    IN  IF rd.ok THEN [ok |-> TRUE, id |-> from_ne_bytes(rd.buf)]
        ELSE [ok |-> FALSE, id |-> <<>>]

\* std::fs::read
read(d, path, ioOk) ==
    IF ioOk /\ path \in DOMAIN d THEN [ok |-> TRUE, data |-> d[path]]
    ELSE [ok |-> FALSE, data |-> <<>>]

\* std::fs::remove_file, when it succeeds
remove_file(d, path) == [q \in (DOMAIN d) \ {path} |-> d[q]]

\* -------------------------------------------------------------- scan_file
\* the result of the loop from position i on, after the read rd at position
\* i - 1 that did not end the loop
After(rd, rest) == [m |-> rest.m, reads |-> <<rd>> \o rest.reads]

\* the comparison made on the first IDSIZE bytes only
RECURSIVE compare_loop_prefix(_, _, _, _, _)
compare_loop_prefix(d, bucket, data, failIdx, i) ==
    IF i > Len(bucket) THEN [m |-> 0, reads |-> <<>>]
    ELSE LET other == read(d, bucket[i], i \notin failIdx)
             rd == <<bucket[i], other.ok>>
         IN  IF other.ok /\ SubSeq(other.data, 1, IDSIZE) = SubSeq(data, 1, IDSIZE)
             THEN [m |-> i, reads |-> <<rd>>]
             ELSE After(rd, compare_loop_prefix(d, bucket, data, failIdx, i + 1))

\* the loop left after its first pass
compare_loop_first(d, bucket, data, failIdx, i) ==
    IF i > Len(bucket) THEN [m |-> 0, reads |-> <<>>]
    ELSE LET other == read(d, bucket[i], i \notin failIdx)
             rd == <<bucket[i], other.ok>>
         IN  IF other.ok /\ other.data = data THEN [m |-> i, reads |-> <<rd>>]
             ELSE [m |-> 0, reads |-> <<rd>>]

\* a member whose read failed taken for a match
RECURSIVE compare_loop_failmatch(_, _, _, _, _)
compare_loop_failmatch(d, bucket, data, failIdx, i) ==
    IF i > Len(bucket) THEN [m |-> 0, reads |-> <<>>]
    ELSE LET other == read(d, bucket[i], i \notin failIdx)
             rd == <<bucket[i], other.ok>>
         IN  IF ~other.ok \/ other.data = data THEN [m |-> i, reads |-> <<rd>>]
             ELSE After(rd, compare_loop_failmatch(d, bucket, data, failIdx, i + 1))

\* the loop run to the end of the bucket, the first match remembered
RECURSIVE compare_loop_all(_, _, _, _, _)
compare_loop_all(d, bucket, data, failIdx, i) ==
    IF i > Len(bucket) THEN [m |-> 0, reads |-> <<>>]
    ELSE LET other == read(d, bucket[i], i \notin failIdx)
             rd == <<bucket[i], other.ok>>
             rest == compare_loop_all(d, bucket, data, failIdx, i + 1)
         IN  IF other.ok /\ other.data = data
             THEN [m |-> i, reads |-> <<rd>> \o rest.reads]
             ELSE After(rd, rest)

\* the for loop over the bucket from position i on: m is the position of
\* the first member whose content was read and equals data, 0 when the loop
\* runs to its end; reads are the reads of members the loop made, in order,
\* each with its success; failIdx are the positions whose read fails
RECURSIVE compare_loop(_, _, _, _, _)
compare_loop(d, bucket, data, failIdx, i) ==
    IF i > Len(bucket) THEN [m |-> 0, reads |-> <<>>]
    ELSE LET other == read(d, bucket[i], i \notin failIdx)
             rd == <<bucket[i], other.ok>>
         IN  IF ~other.ok
             THEN After(rd, compare_loop(d, bucket, data, failIdx, i + 1))
             ELSE IF other.data = data THEN [m |-> i, reads |-> <<rd>>]
             ELSE After(rd, compare_loop(d, bucket, data, failIdx, i + 1))

\* remove_file called on the member of the bucket
remove_target_old(cur_path, old_path) == old_path

\* the path handed to remove_file on a match
remove_target(cur_path, old_path) == cur_path

\* MAP.insert(id, vec![cur_path])
insert(m, id, cur_path) ==
    [k \in (DOMAIN m) \cup {id} |-> IF k = id THEN <<cur_path>> ELSE m[k]]

\* the path put at the front of the bucket
push_front(m, id, cur_path) == [m EXCEPT ![id] = <<cur_path>> \o @]

\* paths.push(cur_path)
push(m, id, cur_path) == [m EXCEPT ![id] = Append(@, cur_path)]

\* the push reached after a match, the return left out
after_match_push(m, id, cur_path) == [m EXCEPT ![id] = Append(@, cur_path)]

\* the index after a match was found: the function returns without a push
after_match(m, id, cur_path) == m

\* the path registered although its content could not be read
skipped_push(m, cur_path) ==
    IF DOMAIN m = {} THEN m
    ELSE LET k == CHOOSE k \in DOMAIN m : TRUE
         IN  [m EXCEPT ![k] = Append(@, cur_path)]

\* the index after a failed key extraction or a failed read of the
\* candidate: the function returns, the index is not touched
skipped(m, cur_path) == m

\* the counter advanced whatever remove_file returned
deleted_after_any(n, res) == n + 1

\* DELETED after the match on the result of the retried remove_file
deleted_after(n, res) == IF res = "Ok" THEN n + 1 ELSE n

NoReads == <<>>
Step(path, outcome, reads, matched, rm) ==
    [path |-> path, outcome |-> outcome, reads |-> reads,
     matched |-> matched, rm |-> rm]

scan_file(cur_path) ==
    \E openAtt \in Attempts, exactOk \in BOOLEAN :
      LET opn == retry_interrupts(openAtt)
          r == read_id(disk, cur_path, openAtt, exactOk)
          openFault == opn.res = "Err" \/ (opn.res = "Ok" /\ ~exactOk)
      IN
      IF ~r.ok THEN
          /\ MAP' = skipped(MAP, cur_path)
          /\ UNCHANGED <<disk, DELETED, errs, undeleted>>
          /\ fault' = (fault \/ openFault)
          /\ last' = Step(cur_path, "extract_fail", NoReads, 0, <<>>)
      ELSE IF r.id \notin DOMAIN MAP THEN
          /\ MAP' = insert(MAP, r.id, cur_path)
          /\ UNCHANGED <<disk, DELETED, errs, fault, undeleted>>
          /\ last' = Step(cur_path, "first", NoReads, 0, <<>>)
      ELSE
        \E dataOk \in BOOLEAN :
          LET cur == read(disk, cur_path, dataOk)
              bucket == MAP[r.id]
          IN
          IF ~cur.ok THEN
              /\ MAP' = skipped(MAP, cur_path)
              /\ UNCHANGED <<disk, DELETED, errs, undeleted>>
              /\ fault' = TRUE
              /\ last' = Step(cur_path, "read_fail", <<<<cur_path, FALSE>>>>, 0, <<>>)
          ELSE
            \E failIdx \in SUBSET (1..Len(bucket)) :
              LET loop == compare_loop(disk, bucket, cur.data, failIdx, 1)
                  m == loop.m
                  reads == <<<<cur_path, TRUE>>>> \o loop.reads
                  readFault == \E j \in 1..Len(loop.reads) : ~loop.reads[j][2]
              IN
              IF m = 0 THEN
                  /\ MAP' = push(MAP, r.id, cur_path)
                  /\ UNCHANGED <<disk, DELETED, errs, undeleted>>
                  /\ fault' = (fault \/ readFault)
                  /\ last' = Step(cur_path, "unique", reads, 0, <<>>)
              ELSE
                \E rmAtt \in Attempts :
                  LET target == remove_target(cur_path, bucket[m])
                      rm == IF target \in DOMAIN disk
                            THEN retry_interrupts(rmAtt).res ELSE "Err"
                  IN
                  /\ MAP' = after_match(MAP, r.id, cur_path)
                  /\ DELETED' = deleted_after(DELETED, rm)
                  /\ IF rm = "Ok" THEN
                         /\ disk' = remove_file(disk, target)
                         /\ UNCHANGED <<errs, undeleted>>
                         /\ fault' = (fault \/ readFault)
                         /\ last' = Step(cur_path, "deleted", reads, bucket[m], rmAtt)
                     ELSE
                         /\ UNCHANGED disk
                         /\ errs' = errs + 1
                         /\ undeleted' = undeleted \cup {cur_path}
                         /\ fault' = TRUE
                         /\ last' = Step(cur_path, "delete_fail", reads, bucket[m], rmAtt)

\* ------------------------------------------------------------------- main
NoStep == Step(0, "none", NoReads, 0, <<>>)
NoPrev == [ran |-> FALSE, fault |-> FALSE, deleted |-> 0]

Init ==
    /\ pc = "main"
    /\ listing \in {[i \in 1..n |-> i] : n \in 0..NumFiles}
    /\ disk \in [1..Len(listing) -> Contents]
    /\ files = disk
    /\ paths = <<>>
    /\ MAP_init = FALSE
    /\ MAP = <<>>
    /\ SCANNED = 0
    /\ DELETED = 0
    /\ out = <<>>
    /\ errs = 0
    /\ last = NoStep
    /\ fault = FALSE
    /\ run = 1
    /\ prev = NoPrev
    /\ undeleted = {}
    /\ workers = <<>>
    /\ mode = "sequential"

\* the error of read_dir returned after the first status line was written
main_err_late ==
    /\ pc = "main"
    /\ pc' = "exit_err"
    /\ out' = Append(out, <<"scanned", SCANNED>>)
    /\ UNCHANGED <<listing, paths, disk, MAP_init, MAP, SCANNED, DELETED,
                   errs, last, files, fault, run, prev, undeleted, workers, mode>>

\* read_dir(dir)? fails: main returns the error
main_err ==
    /\ pc = "main"
    /\ pc' = "exit_err"
    /\ UNCHANGED <<listing, paths, disk, MAP_init, MAP, SCANNED, DELETED, out,
                   errs, last, files, fault, run, prev, undeleted, workers, mode>>

\* the capacity hint does not show in the map's content
map_from_iter(iter) == <<>>

\* read_dir(dir)? succeeds, MAP is initialised, remove_duplicates is called
main ==
    /\ pc = "main"
    /\ paths' = listing
    /\ MAP_init' = TRUE
    /\ MAP' = map_from_iter(listing)
    /\ pc' = "remove_duplicates"
    /\ UNCHANGED <<listing, disk, SCANNED, DELETED, out, errs, last, files,
                   fault, run, prev, undeleted, workers, mode>>

\* no status line for the value 0
print_scanned_nonzero(o, num) == IF num = 0 THEN o ELSE Append(o, <<"scanned", num>>)

print_scanned(o, num) == Append(o, <<"scanned", num>>)

\* remove_duplicates, before the loop
remove_duplicates ==
    /\ pc = "remove_duplicates"
    /\ out' = print_scanned(out, SCANNED)
    /\ pc' = "loop"
    /\ UNCHANGED <<listing, paths, disk, MAP_init, MAP, SCANNED, DELETED,
                   errs, last, files, fault, run, prev, undeleted, workers, mode>>

\* the counter advanced only for the files whose key was extracted
scanned_after_skip(s, outcome) == IF outcome = "extract_fail" THEN s ELSE s + 1

\* SCANNED after one pass of the loop body
scanned_after(s, outcome) == s + 1

\* one pass of the for loop: inner(cur_path)
inner ==
    /\ pc = "loop"
    /\ paths # <<>>
    /\ MAP_init
    /\ scan_file(Head(paths))
    /\ paths' = Tail(paths)
    /\ SCANNED' = scanned_after(SCANNED, last'.outcome)
    /\ out' = print_scanned(out, SCANNED')
    /\ UNCHANGED <<pc, listing, MAP_init, files, run, prev, workers, mode>>

\* remove_duplicates, after the loop; main returns Ok(())
print_deleted ==
    /\ pc = "loop"
    /\ paths = <<>>
    /\ out' = Append(out, <<"deleted", DELETED>>)
    /\ pc' = "exit_ok"
    /\ UNCHANGED <<listing, paths, disk, MAP_init, MAP, SCANNED, DELETED,
                   errs, last, files, fault, run, prev, undeleted, workers, mode>>

Next == main_err \/ main \/ remove_duplicates \/ inner \/ print_deleted

Spec == Init /\ [][Next]_vars

\* the process is scheduled and every blocking call returns: a step that
\* can be taken is taken
SpecLive == Init /\ [][Next]_vars /\ WF_vars(Next)

\* ------------------------------------------------------------- second run
ListingOrders(S) == {s \in [1..Cardinality(S) -> S] : Range(s) = S}

\* the program is started again on the same directory: a new process, with
\* zeroed counters and no index, lists the files that are left
rerun ==
    /\ pc = "exit_ok"
    /\ run = 1
    /\ run' = 2
    /\ prev' = [ran |-> TRUE, fault |-> fault, deleted |-> DELETED]
    /\ listing' \in ListingOrders(DOMAIN disk)
    /\ files' = disk
    /\ pc' = "main"
    /\ paths' = <<>>
    /\ MAP_init' = FALSE
    /\ MAP' = <<>>
    /\ SCANNED' = 0
    /\ DELETED' = 0
    /\ out' = <<>>
    /\ errs' = 0
    /\ last' = NoStep
    /\ fault' = FALSE
    /\ undeleted' = {}
    /\ UNCHANGED <<disk, workers, mode>>

NextTwice == Next \/ rerun

SpecTwice == Init /\ [][NextTwice]_vars

\* ------------------------------------------------------ several threads
\* The per-file algorithm of scan_file run by two threads on the shared
\* index (the comment at lines 117-120 of scan_file).  A thread takes the
\* next path, extracts the key, looks it up and, when the key is there,
\* reads the file and runs the loop over the bucket as it finds it; in a
\* second step it deletes the file or pushes it.  mode says what protects
\* the bucket between the two steps: nothing, one lock per key held from
\* the lookup to the push, or a second look at the members appended in
\* between, made together with the push.
Workers == {"w1", "w2"}
Modes == {"unlocked", "lock", "recheck"}

IdleWorker ==
    [at |-> "idle", path |-> 0, id |-> <<>>, data |-> <<>>, seen |-> 0, m |-> 0]

\* the lock of key id is held by a thread other than w
Locked(id, w) ==
    \E v \in Workers \ {w} : workers[v].at = "resolve" /\ workers[v].id = id

InitWorkers ==
    /\ pc = "workers"
    /\ mode \in Modes
    /\ workers = [w \in Workers |-> IdleWorker]
    /\ listing \in {[i \in 1..n |-> i] : n \in 0..NumFiles}
    /\ disk \in [1..Len(listing) -> Contents]
    /\ files = disk
    /\ paths = listing
    /\ MAP_init = TRUE
    /\ MAP = map_from_iter(listing)
    /\ SCANNED = 0
    /\ DELETED = 0
    /\ out = <<>>
    /\ errs = 0
    /\ last = NoStep
    /\ fault = FALSE
    /\ run = 1
    /\ prev = NoPrev
    /\ undeleted = {}

\* lines 103-121 of scan_file for the next path: up to the return of a
\* skipped or inserted file, or to the end of the loop over the bucket
w_scan(w) ==
    /\ pc = "workers"
    /\ workers[w].at = "idle"
    /\ paths # <<>>
    /\ paths' = Tail(paths)
    /\ UNCHANGED <<pc, listing, disk, MAP_init, DELETED, out, errs, last,
                   files, run, prev, undeleted, mode>>
    /\ \E openAtt \in Attempts, exactOk \in BOOLEAN :
         LET cur_path == Head(paths)
             opn == retry_interrupts(openAtt)
             r == read_id(disk, cur_path, openAtt, exactOk)
             openFault == opn.res = "Err" \/ (opn.res = "Ok" /\ ~exactOk)
         IN
         IF ~r.ok THEN
             /\ MAP' = skipped(MAP, cur_path)
             /\ fault' = (fault \/ openFault)
             /\ SCANNED' = SCANNED + 1
             /\ UNCHANGED workers
         ELSE
             /\ mode = "lock" => ~Locked(r.id, w)
             /\ IF r.id \notin DOMAIN MAP THEN
                    /\ MAP' = insert(MAP, r.id, cur_path)
                    /\ SCANNED' = SCANNED + 1
                    /\ UNCHANGED <<workers, fault>>
                ELSE
                  \E dataOk \in BOOLEAN :
                    LET cur == read(disk, cur_path, dataOk)
                        bucket == MAP[r.id]
                    IN
                    IF ~cur.ok THEN
                        /\ MAP' = skipped(MAP, cur_path)
                        /\ fault' = TRUE
                        /\ SCANNED' = SCANNED + 1
                        /\ UNCHANGED workers
                    ELSE
                      \E failIdx \in SUBSET (1..Len(bucket)) :
                        LET loop == compare_loop(disk, bucket, cur.data, failIdx, 1)
                        IN
                        /\ workers' = [workers EXCEPT ![w] =
                              [at |-> "resolve", path |-> cur_path, id |-> r.id,
                               data |-> cur.data, seen |-> Len(bucket),
                               m |-> loop.m]]
                        /\ fault' = (fault \/
                              \E j \in 1..Len(loop.reads) : ~loop.reads[j][2])
                        /\ UNCHANGED <<MAP, SCANNED>>

\* the match the thread acts on: the match of its loop, or in mode recheck,
\* when the loop found none, the match among the members appended since
recheck(me, bucket, failIdx) ==
    IF me.m # 0 THEN me.m
    ELSE IF mode = "recheck"
         THEN compare_loop(disk, bucket, me.data, failIdx, me.seen + 1).m
         ELSE 0

\* lines 123-133 of scan_file: remove_file on a match, the push without one
w_resolve(w) ==
    /\ pc = "workers"
    /\ workers[w].at = "resolve"
    /\ workers' = [workers EXCEPT ![w] = IdleWorker]
    /\ SCANNED' = SCANNED + 1
    /\ UNCHANGED <<pc, listing, paths, MAP_init, out, last, files, run, prev, mode>>
    /\ LET me == workers[w]
           bucket == MAP[me.id]
       IN
       \E failIdx \in SUBSET ((me.seen + 1)..Len(bucket)) :
         LET m == recheck(me, bucket, failIdx)
             tailFault == me.m = 0 /\ mode = "recheck" /\ failIdx # {}
         IN
         IF m = 0 THEN
             /\ MAP' = push(MAP, me.id, me.path)
             /\ fault' = (fault \/ tailFault)
             /\ UNCHANGED <<disk, DELETED, errs, undeleted>>
         ELSE
           \E rmAtt \in Attempts :
             LET target == remove_target(me.path, bucket[m])
                 rm == IF target \in DOMAIN disk
                       THEN retry_interrupts(rmAtt).res ELSE "Err"
             IN
             /\ MAP' = after_match(MAP, me.id, me.path)
             /\ DELETED' = deleted_after(DELETED, rm)
             /\ IF rm = "Ok" THEN
                    /\ disk' = remove_file(disk, target)
                    /\ fault' = (fault \/ tailFault)
                    /\ UNCHANGED <<errs, undeleted>>
                ELSE
                    /\ UNCHANGED disk
                    /\ errs' = errs + 1
                    /\ undeleted' = undeleted \cup {me.path}
                    /\ fault' = TRUE

NextWorkers == \E w \in Workers : w_scan(w) \/ w_resolve(w)

SpecWorkers == InitWorkers /\ [][NextWorkers]_vars

\* ---------------------------------------------------------------- helpers
\* the paths stored in the index
InIndex(m) == UNION {Range(m[k]) : k \in DOMAIN m}

\* position of a path in the listing of this run
Pos(p) == CHOOSE i \in 1..Len(listing) : listing[i] = p

\* the grouping key of a content of at least IDSIZE bytes
KeyOf(bytes) == from_ne_bytes(SubSeq(bytes, 1, IDSIZE))

Long(bytes) == Len(bytes) >= IDSIZE

\* p is the first path of the listing with its content
FirstOfContent(p) ==
    \A q \in DOMAIN files : files[q] = files[p] => Pos(p) <= Pos(q)

\* the paths removed from the directory by a step
Removed == (DOMAIN disk) \ (DOMAIN disk')

\* ------------------------------------------------------------------- C1
\* C1: a step removes a file only if it is the file scan_file is processing,
\* its content was read, and that content equals the content, read in the
\* same step, of a path stored in the bucket of its key; the removed file
\* is not a path of the index; no file is created and no content changes.
C1_OnlyMatchedCandidateRemoved ==
    [][ /\ \A p \in Removed :
             /\ pc = "loop" /\ paths # <<>> /\ p = Head(paths)
             /\ last'.path = p /\ last'.outcome = "deleted"
             /\ last'.reads[1] = <<p, TRUE>>
             /\ Long(disk[p])
             /\ KeyOf(disk[p]) \in DOMAIN MAP
             /\ last'.matched \in Range(MAP[KeyOf(disk[p])])
             /\ <<last'.matched, TRUE>> \in Range(last'.reads)
             /\ last'.matched \in DOMAIN disk
             /\ disk[last'.matched] = disk[p]
             /\ p \notin InIndex(MAP)
        /\ \A p \in DOMAIN disk' : p \in DOMAIN disk /\ disk'[p] = disk[p]
        /\ last'.outcome \in {"extract_fail", "read_fail"} => disk' = disk
      ]_vars

\* a duplicate was removed in a run in which some operation failed
C1_Witness ==
    /\ last.outcome = "deleted"
    /\ last.path \notin DOMAIN disk
    /\ fault

\* ------------------------------------------------------------------- C2
\* C2: no two distinct paths of one bucket have byte-identical content.
C2_NoIdenticalInBucket ==
    \A k \in DOMAIN MAP : \A i, j \in 1..Len(MAP[k]) :
        (i < j /\ MAP[k][i] \in DOMAIN disk /\ MAP[k][j] \in DOMAIN disk)
            => disk[MAP[k][i]] # disk[MAP[k][j]]

\* ------------------------------------------------------------------- C3
\* C3: every path of the index is a file on disk with the content it had
\* when the run started; a step pushes no path but the one it processes,
\* never the one it tried to delete, and removes no path of the index.
C3_IndexedFilesExist ==
    /\ [](\A p \in InIndex(MAP) : p \in DOMAIN disk /\ p \in DOMAIN files)
    /\ [][ /\ \A p \in InIndex(MAP') \ InIndex(MAP) :
                /\ paths # <<>> /\ p = Head(paths)
                /\ last'.outcome \in {"first", "unique"}
           /\ last'.outcome \in {"deleted", "delete_fail"}
                => last'.path \notin InIndex(MAP')
           /\ \A p \in Removed : p \notin InIndex(MAP) /\ p \notin InIndex(MAP')
         ]_vars

\* a deletion failed, and the file is on disk and in no bucket
C3_Witness ==
    /\ last.outcome = "delete_fail"
    /\ last.path \in DOMAIN disk
    /\ last.path \notin InIndex(MAP)
    /\ last.matched \in InIndex(MAP)

\* ------------------------------------------------------------------- C4
\* the files A, B, C of the scenario
Scenario == <<FileA, FileA, FileC>>

ListedOnce == \A i, j \in 1..Len(listing) : listing[i] = listing[j] => i = j

\* C5: the first file of the listing with a given content is never deleted,
\* so every content of the directory is still the content of a file.
C5_FirstOfContentSurvives ==
    ListedOnce =>
        /\ \A p \in DOMAIN files :
             FirstOfContent(p) => (p \in DOMAIN disk /\ disk[p] = files[p])
        /\ Range(files) = Range(disk)

\* three identical files were processed, with failures, and one was deleted
C5_Witness ==
    /\ pc = "exit_ok"
    /\ fault
    /\ Len(files) = 3
    /\ files[1] = files[2] /\ files[2] = files[3]
    /\ DELETED >= 1
    /\ 1 \in DOMAIN disk

\* ------------------------------------------------------------------- C6
\* the number of files on disk with content c
Copies(c) == Cardinality({p \in DOMAIN disk : disk[p] = c})

C7_ShortFilesUntouched ==
    /\ \A p \in DOMAIN files :
         ~Long(files[p]) =>
            /\ p \in DOMAIN disk /\ disk[p] = files[p]
            /\ p \notin InIndex(MAP)
            /\ last.path = p
                 => (last.outcome = "extract_fail" /\ SCANNED = Pos(p))
    /\ (pc = "exit_ok" /\ files = <<Short3>>)
         => (disk = files /\ SCANNED = 1 /\ DELETED = 0)

\* two short files of the same content and a file that begins with the
\* same bytes were all processed
C7_Witness ==
    /\ pc = "exit_ok"
    /\ files = <<Short3, Prefix, Short3>>
    /\ SCANNED = 3
    /\ last.path = 3 /\ last.outcome = "extract_fail"

\* ------------------------------------------------------------------- C8
\* the content of p is the content of no other file of the directory
UniqueContent(p) == \A q \in DOMAIN files : files[q] = files[p] => q = p

\* C8: a file whose content differs from the content of every other file
\* is not deleted, whatever keys collide; when the contents are pairwise
\* distinct nothing is deleted.
C8_DistinctContentsSurvive ==
    /\ \A p \in DOMAIN files :
         UniqueContent(p) =>
            /\ p \in DOMAIN disk
            /\ last.path = p => last.outcome # "deleted"
    /\ (\A p \in DOMAIN files : UniqueContent(p))
         => (DELETED = 0 /\ DOMAIN disk = DOMAIN files)

\* three files of one key and pairwise distinct contents were compared
C8_Witness ==
    /\ pc = "exit_ok"
    /\ Len(files) = 3
    /\ \A p \in DOMAIN files :
         UniqueContent(p) /\ Long(files[p]) /\ KeyOf(files[p]) = KeyOf(Prefix)
    /\ last.outcome = "unique"
    /\ Len(last.reads) = 3
    /\ DOMAIN disk = {1, 2, 3}

C10_ScannedCountsPaths ==
    /\ [](pc \in {"loop", "exit_ok"} => SCANNED = Len(listing) - Len(paths))
    /\ [](pc = "exit_ok" => SCANNED = Len(listing))
    /\ [](last.path # 0 => SCANNED = Pos(last.path))
    /\ [][SCANNED' # SCANNED =>
            (run' = run => (SCANNED' = SCANNED + 1 /\ paths # <<>> /\ paths' = Tail(paths)))]_vars

\* three paths were counted, the last one after a failed deletion and the
\* first after a failed extraction
C10_Witness ==
    /\ pc = "exit_ok"
    /\ SCANNED = 3
    /\ last.outcome = "delete_fail"
    /\ ~Long(files[1])

\* one pass of the for loop is taken
StepTaken == pc = "loop" /\ paths # <<>> /\ paths' = Tail(paths)

\* the result of a retried operation, read off the outcomes of its attempts:
\* the first outcome that is not an interruption
FirstOutcome(att) ==
    IF \E i \in 1..Len(att) :
           att[i] = "Ok" /\ \A j \in 1..(i - 1) : att[j] = "Interrupted"
    THEN "Ok" ELSE "Err"

\* ------------------------------------------------------------------ C11
\* C11: DELETED is the number of files the run has removed; it grows by one
\* in the steps whose remove_file succeeded and in no other step, it
\* never decreases and never exceeds the number of paths taken from the
\* listing.
C11_DeletedCountsRemovals ==
    /\ [](DELETED = Cardinality((DOMAIN files) \ (DOMAIN disk)))
    /\ [](pc \in {"loop", "exit_ok"} => DELETED <= Len(listing) - Len(paths))
    /\ [][ /\ DELETED' >= DELETED
           /\ DELETED' # DELETED =>
                /\ StepTaken
                /\ DELETED' = DELETED + 1
                /\ Removed = {Head(paths)}
                /\ last'.outcome = "deleted"
                /\ FirstOutcome(last'.rm) = "Ok"
           /\ (StepTaken /\ last'.outcome # "deleted") =>
                (DELETED' = DELETED /\ Removed = {})
           /\ (StepTaken /\ last'.outcome = "delete_fail") =>
                FirstOutcome(last'.rm) = "Err"
         ]_vars

\* a run ended after a deletion that failed and a deletion that succeeded
C11_Witness ==
    /\ pc = "exit_ok"
    /\ DELETED = 1
    /\ errs = 1
    /\ last.outcome = "deleted"

\* ------------------------------------------------------------------ C12
\* the lines scanned:0 .. scanned:n
ScannedLines(n) == [i \in 1..(n + 1) |-> <<"scanned", i - 1>>]

\* C12: standard output is scanned:0, ..., scanned:N and then one deleted:D
\* line: nothing before the loop is entered, scanned:0 .. scanned:k once k
\* files are processed, and at the end the deleted line with the final
\* counter; an empty directory gives scanned:0 and deleted:0.
C12_StatusOutput ==
    /\ pc \in {"main", "remove_duplicates", "exit_err"} => out = <<>>
    /\ pc = "loop" =>
          /\ out = ScannedLines(SCANNED)
          /\ SCANNED = Len(listing) - Len(paths)
    /\ pc = "exit_ok" =>
          out = ScannedLines(Len(listing)) \o <<<<"deleted", DELETED>>>>
    /\ (pc = "exit_ok" /\ listing = <<>>) =>
          out = <<<<"scanned", 0>>, <<"deleted", 0>>>>

\* a run over three files, one of them deleted, has written its five lines
C12_Witness ==
    /\ pc = "exit_ok"
    /\ Len(listing) = 3
    /\ DELETED = 1
    /\ Len(out) = 5
    /\ out[1] = <<"scanned", 0>>
    /\ out[5] = <<"deleted", 1>>

\* ------------------------------------------------------------------ C13
\* C13: when the listing cannot be obtained the run ends with an error and
\* nothing was done: no file changed, no step of scan_file, the index not
\* initialised, the counters 0, no output; the error exit is taken from
\* main only, and a run that has its listing ends with success whatever
\* failed on the way.
C13_ListingFailureAborts ==
    /\ [](pc = "exit_err" =>
            /\ disk = files
            /\ last = NoStep
            /\ ~MAP_init /\ MAP = <<>>
            /\ SCANNED = 0 /\ DELETED = 0
            /\ out = <<>> /\ errs = 0
            /\ ~fault)
    /\ [][pc' = "exit_err" => pc \in {"main", "exit_err"}]_vars
    /\ [][(pc \in {"remove_duplicates", "loop"}) =>
            (pc' \in {"remove_duplicates", "loop", "exit_ok"})]_vars
    /\ [](fault => pc \in {"loop", "exit_ok"})

\* the listing of a directory of three files, two of them identical, failed
C13_Witness ==
    /\ pc = "exit_err"
    /\ Len(files) = 3
    /\ files[1] = files[2]
    /\ DOMAIN disk = {1, 2, 3}

\* ------------------------------------------------------------------ C14
\* every read of the latest step succeeded
AllReadsOk == \A j \in 1..Len(last.reads) : last.reads[j][2]

LoopReads(step) == Tail(step.reads)

\* C15: in a step of the loop, a member of the bucket whose read fails is
\* not the match, keeps its position in the bucket and stays on disk, and
\* the next member is read after it; the file is deleted only on a member
\* that was read and has the same content, and when every member read
\* fails nothing is deleted.
C15_FailedMemberReadIsNoMatch ==
    [][ (StepTaken /\ Len(last'.reads) >= 2) =>
          LET cur == Head(paths)
              b == MAP[KeyOf(disk[cur])]
              lr == LoopReads(last')
          IN  /\ \A j \in 1..Len(lr) :
                   ~lr[j][2] =>
                      /\ lr[j][1] = b[j]
                      /\ MAP'[KeyOf(disk[cur])][j] = b[j]
                      /\ b[j] \in DOMAIN disk' /\ disk'[b[j]] = disk[b[j]]
                      /\ last'.matched # b[j]
                      /\ j < Len(b) => (Len(lr) > j /\ lr[j + 1][1] = b[j + 1])
              /\ Removed # {} =>
                   /\ lr[Len(lr)] = <<last'.matched, TRUE>>
                   /\ disk[last'.matched] = disk[cur]
              /\ (\A j \in 1..Len(lr) : ~lr[j][2]) =>
                   (Removed = {} /\ last'.outcome = "unique")
      ]_vars

\* the read of the first member failed, the second member was read and
\* matched, and the first member is still on disk and in the index
C15_Witness ==
    /\ last.outcome = "deleted"
    /\ Len(last.reads) = 3
    /\ last.reads[2] = <<1, FALSE>>
    /\ last.reads[3] = <<2, TRUE>>
    /\ 1 \in DOMAIN disk
    /\ 1 \in InIndex(MAP)

\* ------------------------------------------------------------------ C16
\* C16: a step that ends in a failed key extraction, or in a failed read of
\* the candidate after its key was found in the index, changes neither the
\* index nor DELETED nor any file, writes no error line and registers the
\* candidate in no bucket; SCANNED advances by one.
C16_SkippedFileChangesNothing ==
    [][ (StepTaken /\ last'.outcome \in {"extract_fail", "read_fail"}) =>
          /\ MAP' = MAP
          /\ DELETED' = DELETED
          /\ disk' = disk
          /\ errs' = errs
          /\ Head(paths) \notin InIndex(MAP')
          /\ SCANNED' = SCANNED + 1
          /\ last'.outcome = "read_fail" =>
               /\ Long(disk[Head(paths)])
               /\ KeyOf(disk[Head(paths)]) \in DOMAIN MAP
               /\ last'.reads = <<<<Head(paths), FALSE>>>>
          /\ last'.outcome = "extract_fail" => last'.reads = <<>>
      ]_vars

\* the content of the second file, whose key the first file had put in the
\* index, could not be read
C16_Witness ==
    /\ last.path = 2
    /\ last.outcome = "read_fail"
    /\ SCANNED = 2
    /\ InIndex(MAP) = {1}
    /\ DOMAIN disk = DOMAIN files
    /\ DELETED = 0

\* ------------------------------------------------------------------ C18
\* the run has ended with success and the deleted line is the last line
Completed ==
    /\ pc = "exit_ok"
    /\ SCANNED = Len(listing)
    /\ out # <<>>
    /\ out[Len(out)] = <<"deleted", DELETED>>

KeysDistinct ==
    \A p, q \in DOMAIN files :
        (p # q /\ Long(files[p]) /\ Long(files[q]))
            => KeyOf(files[p]) # KeyOf(files[q])

\* C19: a step reads contents only when the key of its file is in the
\* index: a file whose key is new becomes a bucket of its own without a
\* read; otherwise the candidate is read once, first, and the members are
\* read in the order of the bucket, each at most once, up to the first one
\* that was read and has the candidate's content; when all keys are
\* distinct no content is read and nothing is deleted.
C19_ContentsReadLazily ==
    /\ [][ StepTaken =>
             LET cur == Head(paths)
                 rd == last'.reads
             IN  /\ rd # <<>> =>
                      /\ Long(disk[cur])
                      /\ KeyOf(disk[cur]) \in DOMAIN MAP
                      /\ rd[1][1] = cur
                      /\ Len(rd) <= Len(MAP[KeyOf(disk[cur])]) + 1
                      /\ \A j \in 2..Len(rd) :
                           rd[j][1] = MAP[KeyOf(disk[cur])][j - 1]
                      /\ \A j \in 2..(Len(rd) - 1) :
                           ~(rd[j][2] /\ disk[rd[j][1]] = disk[cur])
                      /\ last'.outcome \in {"deleted", "delete_fail"} =>
                           rd[Len(rd)] = <<last'.matched, TRUE>>
                      /\ last'.outcome = "unique" =>
                           Len(rd) = Len(MAP[KeyOf(disk[cur])]) + 1
                 /\ last'.outcome = "first" =>
                      /\ rd = <<>>
                      /\ KeyOf(disk[cur]) \notin DOMAIN MAP
                      /\ MAP'[KeyOf(disk[cur])] = <<cur>>
                      /\ disk' = disk
                 /\ (Long(disk[cur]) /\ KeyOf(disk[cur]) \notin DOMAIN MAP) =>
                      last'.outcome \in {"first", "extract_fail"}
         ]_vars
    /\ [](KeysDistinct => (last.reads = <<>> /\ DELETED = 0 /\ disk = files))

\* the candidate matched the first of the two members of its bucket, and
\* the second member was not read
C19_Witness ==
    /\ last.outcome = "deleted"
    /\ last.path = 3
    /\ last.reads = <<<<3, TRUE>>, <<1, TRUE>>>>
    /\ Long(files[3])
    /\ MAP[KeyOf(files[3])] = <<1, 2>>

\* ------------------------------------------------------------------ C20
\* s is a prefix of t
IsPrefix(s, t) == Len(s) <= Len(t) /\ SubSeq(t, 1, Len(s)) = s

\* C20: a step keeps every bucket and only appends to it; no bucket is
\* empty; a path of the bucket of key k is a listed path, already taken
\* from the listing, whose first IDSIZE bytes decode to k; a path is in
\* the index at most once; the paths of a bucket are in listing order.
C20_IndexAppendOnly ==
    /\ [][\A k \in DOMAIN MAP :
            k \in DOMAIN MAP' /\ IsPrefix(MAP[k], MAP'[k])]_vars
    /\ [](\A k \in DOMAIN MAP :
            /\ MAP[k] # <<>>
            /\ \A i \in 1..Len(MAP[k]) :
                 /\ MAP[k][i] \in Range(listing)
                 /\ MAP[k][i] \notin Range(paths)
                 /\ Long(files[MAP[k][i]])
                 /\ KeyOf(files[MAP[k][i]]) = k
            /\ \A i, j \in 1..Len(MAP[k]) :
                 i < j => Pos(MAP[k][i]) < Pos(MAP[k][j]))
    /\ [](\A k1, k2 \in DOMAIN MAP :
            \A i \in 1..Len(MAP[k1]) : \A j \in 1..Len(MAP[k2]) :
                MAP[k1][i] = MAP[k2][j] => (k1 = k2 /\ i = j))

\* the index holds a bucket of two paths and a bucket of one
C20_Witness ==
    /\ pc = "exit_ok"
    /\ Cardinality(DOMAIN MAP) = 2
    /\ \E k \in DOMAIN MAP : MAP[k] = <<1, 3>>
    /\ \E k \in DOMAIN MAP : MAP[k] = <<2>>

\* ------------------------------------------------------------------ C17
\* two paths of one bucket have byte-identical content
IdenticalInBucket ==
    \E k \in DOMAIN MAP : \E i, j \in 1..Len(MAP[k]) :
        /\ i < j
        /\ MAP[k][i] \in DOMAIN disk /\ MAP[k][j] \in DOMAIN disk
        /\ disk[MAP[k][i]] = disk[MAP[k][j]]

\* C17: with two threads and nothing that serialises the loop and the push,
\* a bucket can come to hold two identical files; with one lock per key
\* around loop and push, or with the members appended since the loop
\* looked at again together with the push, no bucket holds two identical
\* files.
C17_LocksKeepBucketsUnique ==
    mode \in {"lock", "recheck"} => ~IdenticalInBucket

\* the same without failed reads: the two protections keep the buckets
\* free of identical files as long as every read of the run succeeded
C17_LocksKeepBucketsUniqueNoFault ==
    (mode \in {"lock", "recheck"} /\ ~fault) => ~IdenticalInBucket

\* the race: without protection and without any failure a bucket holds two
\* identical files
C17_Race ==
    /\ mode = "unlocked"
    /\ ~fault
    /\ IdenticalInBucket

====
